---- MODULE Spec2Model ----
(***************************************************************************)
(* County-level districting (helper.py).                                   *)
(*                                                                         *)
(* check_feasibility(G, L, U, k) builds a mixed-integer model (assignment  *)
(* variables x[i,j], flow variables f[j,u,v]), hands it to the engine and  *)
(* extracts the districts; draw_districts(G, districts, df) labels the     *)
(* rows of a dataframe with the index of their district.                   *)
(*                                                                         *)
(* The counties are the nodes 1..n in G.nodes order, an edge is a set of   *)
(* two nodes, POP20 is the population attribute.  The engine is modelled   *)
(* by what it guarantees: status Optimal comes with a point of the model   *)
(* that minimises the objective, status Infeasible only when the model has *)
(* no point, and any other terminal status can come at any time.           *)
(***************************************************************************)
EXTENDS Integers, Sequences, FiniteSets, TLC

\* Bounds of the model.
NumNodes == 3
MaxPop == 2
MaxBound == 3
MaxK == 3

VARIABLES
    n,          \* G.number_of_nodes(); G.nodes is 1..n
    E,          \* G.edges, a set of two-element sets of nodes
    POP20,      \* G.nodes[i]['POP20']
    L, U, k,    \* the arguments of check_feasibility
    pc,         \* the position of check_feasibility (or of draw_districts)
    built,      \* TRUE once gp.Model() has been constructed (line 75)
    solves,     \* the number of calls of m.optimize() (line 133)
    dist,       \* the distance table of lines 84-88
    status,     \* m.status after m.optimize()
    xval,       \* x[i,j].x, the values the engine returns with status Optimal
    centers,    \* line 143
    districts,  \* line 144
    out,        \* what has been printed
    ret,        \* what check_feasibility returned
    GEOID10,    \* G.nodes[i]["GEOID10"]
    df,         \* df['GEOID10'], by row position
    assignment, \* the list of line 22
    u           \* the loop variable of line 27

vars == <<n, E, POP20, L, U, k, pc, built, solves, dist, status, xval,
          centers, districts, out, ret, GEOID10, df, assignment, u>>

feasVars == <<n, E, POP20, L, U, k, built, solves, dist, status, xval,
              centers, out, ret>>
drawVars == <<GEOID10, df, assignment, u>>

----------------------------------------------------------------------------
\* The graph.

Nodes == 1..n

Pairs(m) == { e \in SUBSET (1..m) : Cardinality(e) = 2 }

\* G.neighbors(i)
neighbors(i) == { v \in Nodes : {i, v} \in E }

\* DG = nx.DiGraph(G): both arcs of every edge
DGedges == { a \in Nodes \X Nodes : {a[1], a[2]} \in E /\ a[1] # a[2] }

\* gp.quicksum( g[i] for i in S ), S a set of nodes
RECURSIVE Sum(_, _)
Sum(g, S) ==
    IF S = {} THEN 0
    ELSE LET i == CHOOSE v \in S : TRUE IN g[i] + Sum(g, S \ {i})

\* gp.quicksum( g[i] for i in G.nodes ): the nodes are 1..n
RECURSIVE SumTo(_, _)
SumTo(g, m) == IF m = 0 THEN 0 ELSE g[m] + SumTo(g, m - 1)

SumNodes(g) == SumTo(g, n)

\* the largest element of a non-empty set of integers
Max(S) == CHOOSE a \in S : \A b \in S : b <= a

max_pop == Max({ POP20[i] : i \in Nodes })

----------------------------------------------------------------------------
\* The distance table (lines 83-88).

\* nx.shortest_path_length(G, source=i): breadth-first search by levels; the
\* result has a key for every node reached and for no other.
RECURSIVE bfs_levels(_, _, _)
bfs_levels(d, frontier, level) ==
    IF frontier = {} THEN d
    ELSE LET seen == DOMAIN d
             nextlevel == { v \in Nodes \ seen : \E w \in frontier : {w, v} \in E }
         IN bfs_levels(d @@ [v \in nextlevel |-> level + 1], nextlevel, level + 1)

shortest_path_length(source) == bfs_levels([v \in {source} |-> 0], {source}, 0)

\* dist_table with the sentinel one too small (n - 1 is a real distance)
dist_table_short_sentinel ==
    [p \in Nodes \X Nodes |->
        LET d == shortest_path_length(p[1])
        IN IF p[2] \in DOMAIN d THEN d[p[2]] ELSE n - 1]

\* dist = { (i,j) : n ...}, then dist[i,j] = d[j] for the keys of d
dist_table ==
    [p \in Nodes \X Nodes |->
        LET d == shortest_path_length(p[1])
        IN IF p[2] \in DOMAIN d THEN d[p[2]] ELSE n]

----------------------------------------------------------------------------
\* The model m (lines 75-128).  A point is a value for every x[i,j]; the
\* flow variables are quantified where the constraints that use them are.

\* x = m.addVars(G.nodes, G.nodes, vtype=GRB.BINARY): the values of the
\* variables x[i,.] of one county i
BinaryRows == [Nodes -> {0, 1}]

\* assign_one with <= in place of ==
assign_at_most_one(xi) == SumNodes(xi) <= 1

\* gp.quicksum( x[i,j] for j in G.nodes ) == 1, for the one i: the
\* constraint of county i reads the variables of county i only
assign_one(xi) == SumNodes(xi) = 1

\* The 0/1 points that satisfy line 95 for every county.  The points are
\* built county by county from the rows that satisfy the county's own
\* constraint, which gives the same set as filtering all 0/1 points.
AssignedPoints ==
    { [p \in Nodes \X Nodes |-> rows[p[1]][p[2]]] :
        rows \in [Nodes -> { xi \in BinaryRows : assign_one(xi) }] }

\* gp.quicksum( x[j,j] for j in G.nodes ) == k
k_centers(x) == SumNodes([j \in Nodes |-> x[j, j]]) = k

\* pop_lower without the factor x[j,j]
pop_lower_unconditional(x, j) ==
    SumNodes([i \in Nodes |-> POP20[i] * x[i, j]]) >= L

\* quicksum( POP20[i] * x[i,j] for i ) >= L * x[j,j], for the one j
pop_lower(x, j) ==
    SumNodes([i \in Nodes |-> POP20[i] * x[i, j]]) >= L * x[j, j]

\* quicksum( POP20[i] * x[i,j] for i ) <= U * x[j,j], for the one j
pop_upper(x, j) ==
    SumNodes([i \in Nodes |-> POP20[i] * x[i, j]]) <= U * x[j, j]

\* x[i,j] <= x[j,j] for i in G.nodes for j in G.nodes
coupling(x) == \A i \in Nodes, j \in Nodes : x[i, j] <= x[j, j]

\* M = DG.number_of_nodes() - 1
M == n - 1

\* quicksum( f[j,u,j] for u in DG.neighbors(j) ) == 0
flow_no_return(fj, j) ==
    Sum([v \in neighbors(j) |-> fj[<<v, j>>]], neighbors(j)) = 0

\* quicksum( f[j,u,i] for u in DG.neighbors(i) ) <= M * x[i,j], i != j
flow_capacity(fj, x, j) ==
    \A i \in Nodes \ {j} :
        Sum([v \in neighbors(i) |-> fj[<<v, i>>]], neighbors(i)) <= M * x[i, j]

\* flow_balance with <= in place of ==
flow_balance_at_most(fj, x, j) ==
    \A i \in Nodes \ {j} :
        Sum([v \in neighbors(i) |-> fj[<<v, i>>] - fj[<<i, v>>]], neighbors(i))
            <= x[i, j]

\* quicksum( f[j,u,i] - f[j,i,u] for u in DG.neighbors(i) ) == x[i,j], i != j
flow_balance(fj, x, j) ==
    \A i \in Nodes \ {j} :
        Sum([v \in neighbors(i) |-> fj[<<v, i>>] - fj[<<i, v>>]], neighbors(i))
            = x[i, j]

\* The values of f[j,.,.] to try for a 0/1 point x.  f is continuous and
\* non-negative (the default bounds of addVars).  For a 0/1 point the three
\* flow groups are a network-flow system with integer right-hand sides, so
\* they have a real solution exactly when they have an integer one; every
\* term of the sum of line 118 is non-negative, so an arc into i carries at
\* most M * x[i,j], and by line 115 an arc into j carries nothing.
flow_values(x, j) ==
    LET open == { a \in DGedges : a[2] # j /\ x[a[2], j] = 1 }
    IN { [a \in DGedges |-> IF a \in open THEN g[a] ELSE 0] :
            g \in [open -> 0..M] }

\* the three flow groups of lines 115-122 have a solution for commodity j
has_flow(x, j) ==
    \E fj \in flow_values(x, j) :
        /\ flow_no_return(fj, j)
        /\ flow_capacity(fj, x, j)
        /\ flow_balance(fj, x, j)

\* UB with >= in place of > (between two counties)
UB_ties(i, j) == IF i # j /\ POP20[i] >= POP20[j] THEN 0 ELSE 1

\* UB without the loop of lines 125-128
UB_default(i, j) == 1

\* x[i,j].UB = 0 when POP20[i] > POP20[j] (lines 125-128)
UB(i, j) == IF POP20[i] > POP20[j] THEN 0 ELSE 1

within_bounds(x) == \A i \in Nodes, j \in Nodes : x[i, j] <= UB(i, j)

\* an assigned point x is a point of m: the other constraint groups and the
\* variable bounds hold
feasible_point(x) ==
    /\ coupling(x)
    /\ k_centers(x)
    /\ within_bounds(x)
    /\ \A j \in Nodes : pop_lower(x, j)
    /\ \A j \in Nodes : pop_upper(x, j)
    /\ \A j \in Nodes : has_flow(x, j)

feasible_region == { x \in AssignedPoints : feasible_point(x) }

\* the moment of inertia of line 92, with the table built so far
objective(x) ==
    SumNodes([i \in Nodes |->
        SumNodes([j \in Nodes |->
            dist[i, j] * dist[i, j] * POP20[i] * x[i, j]])])

----------------------------------------------------------------------------
\* check_feasibility( G, L, U, k )

\* the elements of a set of nodes as a list, in G.nodes order
RECURSIVE in_order(_)
in_order(S) ==
    IF S = {} THEN <<>>
    ELSE LET a == CHOOSE v \in S : \A w \in S : v <= w
         IN <<a>> \o in_order(S \ {a})

NoValue == [kind |-> "pending", value |-> <<>>]

InitFeasibility ==
    /\ n \in 0..NumNodes
    /\ E \in SUBSET Pairs(n)
    /\ POP20 \in [1..n -> 0..MaxPop]
    /\ L \in 0..MaxBound
    /\ U \in 0..MaxBound
    /\ k \in 0..MaxK
    /\ pc = "overt"
    /\ built = FALSE
    /\ solves = 0
    /\ dist = <<>>
    /\ status = "LOADED"
    /\ xval = <<>>
    /\ centers = <<>>
    /\ districts = <<>>
    /\ out = <<>>
    /\ ret = NoValue
    /\ GEOID10 = <<>>
    /\ df = <<>>
    /\ assignment = <<>>
    /\ u = 0

\* Overt without the comparison of line 70
Overt_no_comparison ==
    /\ pc = "overt"
    /\ IF Nodes = {}
       THEN /\ pc' = "done"
            /\ ret' = [kind |-> "ValueError", value |-> <<>>]
       ELSE /\ pc' = "create"
            /\ ret' = ret
    /\ UNCHANGED <<n, E, POP20, L, U, k, built, solves, dist, status, xval,
                   centers, districts, out>>
    /\ UNCHANGED drawVars

\* lines 69-72: max() of an empty sequence raises ValueError
Overt ==
    /\ pc = "overt"
    /\ IF Nodes = {}
       THEN /\ pc' = "done"
            /\ ret' = [kind |-> "ValueError", value |-> <<>>]
            /\ out' = out
       ELSE IF max_pop > U
       THEN /\ pc' = "done"
            /\ ret' = [kind |-> "False", value |-> <<>>]
            /\ out' = Append(out, <<"This state is not county-level feasible.">>)
       ELSE /\ pc' = "create"
            /\ UNCHANGED <<ret, out>>
    /\ UNCHANGED <<n, E, POP20, L, U, k, built, solves, dist, status, xval,
                   centers, districts>>
    /\ UNCHANGED drawVars

\* lines 75-128: the model, the distance table, the objective, the
\* constraints and the variable bounds
Build ==
    /\ pc = "create"
    /\ built' = TRUE
    /\ dist' = dist_table
    /\ pc' = "optimize"
    /\ UNCHANGED <<n, E, POP20, L, U, k, solves, status, xval, centers,
                   districts, out, ret>>
    /\ UNCHANGED drawVars

\* lines 131-133: m.optimize().  OPTIMAL comes with a point of the model of
\* least objective, INFEASIBLE only when the model has no point; any other
\* status (TIME_LIMIT, INF_OR_UNBD, NUMERIC, ...) comes without a point.
Optimize ==
    /\ pc = "optimize"
    /\ solves' = solves + 1
    /\ pc' = "status"
    /\ LET region == feasible_region
       IN \/ /\ region # {}
             /\ status' = "OPTIMAL"
             /\ xval' \in { x \in region :
                               \A y \in region : objective(x) <= objective(y) }
          \/ /\ region = {}
             /\ status' = "INFEASIBLE"
             /\ xval' = xval
          \/ /\ status' = "OTHER"
             /\ xval' = xval
    /\ UNCHANGED <<n, E, POP20, L, U, k, built, dist, centers, districts,
                   out, ret>>
    /\ UNCHANGED drawVars

\* lines 135-137
Infeasible ==
    /\ pc = "status"
    /\ status = "INFEASIBLE"
    /\ out' = Append(out, <<"This state is not county-level feasible.">>)
    /\ ret' = [kind |-> "False", value |-> <<>>]
    /\ pc' = "done"
    /\ UNCHANGED <<n, E, POP20, L, U, k, built, solves, dist, status, xval,
                   centers, districts>>
    /\ UNCHANGED drawVars

\* centers = [j for j in G.nodes if x[j,j].x > 0.5 ]
extract_centers == in_order({ j \in Nodes : 2 * xval[j, j] > 1 })

\* districts = [ [i for i in G.nodes if x[i,j].x > 0.5] for j in centers]
extract_districts(cs) ==
    [c \in 1..Len(cs) |-> in_order({ i \in Nodes : 2 * xval[i, cs[c]] > 1 })]

\* sum(G.nodes[i]["POP20"] for i in districts[j])
district_population(d) ==
    Sum([c \in 1..Len(d) |-> POP20[d[c]]], 1..Len(d))

\* lines 139-152: districts[j] for j in range(k) raises IndexError when the
\* list is shorter than k.  A printed line shows the district's nodes where
\* the code prints their NAME10.
Extract ==
    /\ pc = "status"
    /\ status = "OPTIMAL"
    /\ LET cs == extract_centers
           ds == extract_districts(cs)
       IN /\ centers' = cs
          /\ districts' = ds
          /\ IF k > Len(ds)
             THEN /\ ret' = [kind |-> "IndexError", value |-> <<>>]
                  /\ out' = Append(out, <<"Found a feasible districting plan, as follows:">>)
             ELSE /\ ret' = [kind |-> "list", value |-> ds]
                  /\ out' = Append(out, <<"Found a feasible districting plan, as follows:">>)
                            \o [j \in 1..k |->
                                  <<"District", j, district_population(ds[j]), ds[j]>>]
    /\ pc' = "done"
    /\ UNCHANGED <<n, E, POP20, L, U, k, built, solves, dist, status, xval>>
    /\ UNCHANGED drawVars

\* neither branch of lines 135 and 139 is taken: the function ends without a
\* return statement
FallThrough ==
    /\ pc = "status"
    /\ status \notin {"INFEASIBLE", "OPTIMAL"}
    /\ ret' = [kind |-> "None", value |-> <<>>]
    /\ pc' = "done"
    /\ UNCHANGED <<n, E, POP20, L, U, k, built, solves, dist, status, xval,
                   centers, districts, out>>
    /\ UNCHANGED drawVars

Next == Overt \/ Build \/ Optimize \/ Infeasible \/ Extract \/ FallThrough

Spec == InitFeasibility /\ [][Next]_vars

----------------------------------------------------------------------------
\* draw_districts( G, districts, df )

\* a GEOID10 value; it is no node and no row position
GeoIds(m) == { <<"GEOID10", c>> : c \in 1..m }

\* labeling with the districts counted from 1
labeling_from_one ==
    [i \in UNION { { districts[c][t] : t \in 1..Len(districts[c]) } :
                      c \in 1..Len(districts) } |->
        Max({ c \in 1..Len(districts) :
                \E t \in 1..Len(districts[c]) : districts[c][t] = i })]

\* labeling = { i : j for j in range(k) for i in districts[j] }: a later
\* entry of the comprehension replaces an earlier one with the same key
labeling ==
    [i \in UNION { { districts[c][t] : t \in 1..Len(districts[c]) } :
                      c \in 1..Len(districts) } |->
        Max({ c \in 1..Len(districts) :
                \E t \in 1..Len(districts[c]) : districts[c][t] = i }) - 1]

\* node_with_this_geoid = { G.nodes[i]["GEOID10"] : i for i in G.nodes }
node_with_this_geoid ==
    [g \in { GEOID10[i] : i \in Nodes } |->
        Max({ i \in Nodes : GEOID10[i] = g })]

\* The arguments: a graph of n >= 1 nodes with distinct GEOID10, a list of
\* non-empty disjoint districts in the form check_feasibility returns them
\* (lab[i] = 0 leaves county i out of every district), and a dataframe of n
\* rows.
InitDraw ==
    /\ n \in 1..NumNodes
    /\ E = {}
    /\ POP20 = [i \in 1..n |-> 0]
    /\ L = 0
    /\ U = 0
    /\ k = 0
    /\ pc = "draw"
    /\ built = FALSE
    /\ solves = 0
    /\ dist = <<>>
    /\ status = "LOADED"
    /\ xval = <<>>
    /\ centers = <<>>
    /\ \E kk \in 1..n :
          \E lab \in [1..n -> 0..kk] :
              /\ \A c \in 1..kk : \E i \in 1..n : lab[i] = c
              /\ districts = [c \in 1..kk |-> in_order({ i \in 1..n : lab[i] = c })]
    /\ out = <<>>
    /\ ret = NoValue
    /\ GEOID10 \in { g \in [1..n -> GeoIds(n)] :
                        \A i \in 1..n, j \in 1..n : g[i] = g[j] => i = j }
    /\ df \in [1..n -> GeoIds(n + 1)]
    /\ assignment = <<>>
    /\ u = 0

\* lines 21-24
DrawSetup ==
    /\ pc = "draw"
    /\ assignment' = [r \in 1..n |-> -1]
    /\ u' = 0
    /\ pc' = "loop"
    /\ UNCHANGED <<GEOID10, df, districts>>
    /\ UNCHANGED feasVars

\* lines 27-35, one pass of the loop for row position u (row u + 1 of df
\* here); a dictionary lookup of a missing key raises KeyError
DrawRow ==
    /\ pc = "loop"
    /\ u < n
    /\ LET geoID == df[u + 1]
       IN IF geoID \notin DOMAIN node_with_this_geoid
          THEN pc' = "KeyError" /\ UNCHANGED <<assignment, u>>
          ELSE LET i == node_with_this_geoid[geoID]
               IN IF i \notin DOMAIN labeling
                  THEN pc' = "KeyError" /\ UNCHANGED <<assignment, u>>
                  ELSE /\ assignment' = [assignment EXCEPT ![u + 1] = labeling[i]]
                       /\ u' = u + 1
                       /\ pc' = pc
    /\ UNCHANGED <<GEOID10, df, districts>>
    /\ UNCHANGED feasVars

\* lines 38-39: the loop is over, the list becomes the column
DrawColumn ==
    /\ pc = "loop"
    /\ u = n
    /\ pc' = "drawn"
    /\ UNCHANGED <<GEOID10, df, districts, assignment, u>>
    /\ UNCHANGED feasVars

NextDraw == DrawSetup \/ DrawRow \/ DrawColumn

SpecDraw == InitDraw /\ [][NextDraw]_vars

----------------------------------------------------------------------------
\* What the properties are stated with: graph notions computed without the
\* distance table, the flow variables or the model.

\* the nodes of D reached from the set S along edges inside D
RECURSIVE Grow(_, _)
Grow(S, D) ==
    LET T == S \cup { v \in D : \E w \in S : {w, v} \in E }
    IN IF T = S THEN S ELSE Grow(T, D)

\* D induces a connected subgraph of G
Connected(D) == D # {} /\ \A r \in D : Grow({r}, D) = D

\* there is a walk of exactly m edges from i to j
HasWalk(i, j, m) ==
    \E p \in [0..m -> Nodes] :
        /\ p[0] = i
        /\ p[m] = j
        /\ \A t \in 0..(m - 1) : {p[t], p[t + 1]} \in E

Reachable(i, j) == \E m \in 0..n : HasWalk(i, j, m)

\* the minimum number of edges on a path from i to j
MinHops(i, j) ==
    CHOOSE m \in 0..n : HasWalk(i, j, m) /\ \A m2 \in 0..(m - 1) : ~HasWalk(i, j, m2)

Members(d) == { d[c] : c \in 1..Len(d) }

Population(D) == Sum(POP20, D)

\* the counties can be split into exactly k non-empty connected districts,
\* each of total population in [L, U]
Districtable ==
    \E lab \in [Nodes -> 1..k] :
        \A c \in 1..k :
            LET D == { i \in Nodes : lab[i] = c }
            IN /\ Connected(D)
               /\ L <= Population(D)
               /\ Population(D) <= U

Returned == pc = "done" /\ ret.kind = "list"

----------------------------------------------------------------------------
\* C1: with status Optimal the returned list has exactly k districts, no
\* district is empty, every county is in exactly one of them, and the c-th
\* district contains the c-th center (so no index of range(k) is out of
\* range).
C1_Partition ==
    (pc = "done" /\ status = "OPTIMAL") =>
        /\ ret.kind = "list"
        /\ Len(ret.value) = k
        /\ Len(centers) = k
        /\ \A c \in 1..Len(ret.value) :
              /\ ret.value[c] # <<>>
              /\ Cardinality(Members(ret.value[c])) = Len(ret.value[c])
              /\ centers[c] \in Members(ret.value[c])
        /\ \A i \in Nodes :
              Cardinality({ c \in 1..Len(ret.value) : i \in Members(ret.value[c]) }) = 1

C1_Witness ==
    /\ Returned
    /\ status = "OPTIMAL"
    /\ n = 3
    /\ k = 2

\* C2: every returned district has population in [L, U]; and for a county
\* j that is not a center, the two population constraints of j hold at
\* every 0/1 point that satisfies the assignment, center-count and coupling
\* constraints and the variable bounds.
C2_PopulationBounds ==
    /\ Returned =>
          \A c \in 1..Len(ret.value) :
              /\ L <= Population(Members(ret.value[c]))
              /\ Population(Members(ret.value[c])) <= U
    /\ pc = "optimize" =>
          \A x \in AssignedPoints :
              (coupling(x) /\ k_centers(x) /\ within_bounds(x)) =>
                  \A j \in Nodes :
                      x[j, j] = 0 => (pop_lower(x, j) /\ pop_upper(x, j))

C2_Witness ==
    /\ Returned
    /\ L > 0
    /\ Len(ret.value) = 2
    /\ \E j \in Nodes : xval[j, j] = 0
    /\ \E c \in 1..2 : Population(Members(ret.value[c])) = U

\* C3: every returned district induces a connected subgraph of G; more
\* generally, at every 0/1 point that assigns each county once, satisfies
\* the coupling and has flows satisfying the three flow groups, every county
\* assigned to j is reached from j inside the set of counties assigned to j.
C3_Connected ==
    /\ Returned => \A c \in 1..Len(ret.value) : Connected(Members(ret.value[c]))
    /\ pc = "optimize" =>
          \A x \in AssignedPoints :
              (coupling(x) /\ \A j \in Nodes : has_flow(x, j)) =>
                  \A j \in Nodes :
                      LET D == { i \in Nodes : x[i, j] = 1 }
                      IN D \subseteq Grow({j}, D)

C3_Witness ==
    /\ Returned
    /\ n = 3
    /\ Cardinality(E) = 2
    /\ \E c \in 1..Len(ret.value) : Len(ret.value[c]) = 2

\* C4: the model has a point exactly when the counties can be split into
\* k non-empty connected districts of population in [L, U] (the dominance
\* bounds included, ties and zero populations included); a graph that is
\* not connected has no point for k = 1.
C4_Exact ==
    pc = "overt" =>
        /\ (feasible_region # {}) <=> Districtable
        /\ (k = 1 /\ n > 0 /\ ~Connected(Nodes)) => feasible_region = {}

C4_Witness ==
    /\ pc = "overt"
    /\ n = 3
    /\ k = 2
    /\ Cardinality(E) = 2
    /\ POP20[1] = POP20[2]
    /\ POP20[3] = 0
    /\ Districtable
    /\ feasible_region # {}

\* C5: when some county's POP20 exceeds U, no model is built, the engine is
\* never invoked and the call returns False; and nothing is built or solved
\* before the comparison has been made.
C5_ShortCircuit ==
    /\ (n > 0 /\ max_pop > U) =>
          /\ ~built
          /\ solves = 0
          /\ pc \in {"overt", "done"}
          /\ pc = "done" => ret.kind = "False"
    /\ pc = "overt" => (~built /\ solves = 0 /\ ret = NoValue)

C5_Witness ==
    /\ pc = "done"
    /\ n = 2
    /\ max_pop > U
    /\ ret.kind = "False"
    /\ ~built

\* C6: a terminal status other than Optimal and Infeasible ends in an
\* outcome of its own: not the infeasible outcome, not a plan, and not the
\* silent end of the function (no return value and nothing reported).
C6_InconclusiveSurfaced ==
    (pc = "done" /\ status = "OTHER") =>
        /\ ret.kind \notin {"False", "list"}
        /\ (ret.kind # "None" \/ out # <<>>)

\* C7: with L > U, k < 1 or an empty graph the call is rejected before the
\* model is built or solved, with an outcome that is not the infeasible one.
C7_ConfigRejected ==
    (L > U \/ k < 1 \/ n = 0) =>
        /\ ~built
        /\ solves = 0
        /\ pc = "done" => ret.kind \notin {"False", "list", "None"}

\* C8: in every returned district the center (the county j of the district
\* with x[j,j] = 1) has POP20 at least that of every member.
C8_CenterDominant ==
    Returned =>
        \A c \in 1..Len(ret.value) :
            /\ xval[centers[c], centers[c]] = 1
            /\ \A i \in Members(ret.value[c]) : POP20[centers[c]] >= POP20[i]

C8_Witness ==
    /\ Returned
    /\ \E c \in 1..Len(ret.value) :
          \E i \in Members(ret.value[c]) : POP20[i] < POP20[centers[c]]
    /\ \E c \in 1..Len(ret.value) :
          \E i \in Members(ret.value[c]) :
              i # centers[c] /\ POP20[i] = POP20[centers[c]]

\* C9: the distance table has an entry for every ordered pair; the entry is
\* the minimum number of edges of a path when there is one, and then less
\* than n, and the sentinel n when there is none; dist[i,i] = 0 and
\* dist[i,j] = dist[j,i].
C9_DistanceTable ==
    pc = "optimize" =>
        /\ DOMAIN dist = Nodes \X Nodes
        /\ \A i \in Nodes, j \in Nodes :
              /\ Reachable(i, j) => (dist[i, j] = MinHops(i, j) /\ dist[i, j] < n)
              /\ ~Reachable(i, j) => dist[i, j] = n
              /\ dist[i, j] = dist[j, i]
        /\ \A i \in Nodes : dist[i, i] = 0

C9_Witness ==
    /\ pc = "optimize"
    /\ n = 3
    /\ \E i \in Nodes, j \in Nodes : dist[i, j] = 2
    /\ \E a \in Nodes \X Nodes : a[1] # a[2] /\ dist[a] = 1

C9_SentinelReached ==
    /\ pc = "optimize"
    /\ n = 3
    /\ \E i \in Nodes, j \in Nodes : dist[i, j] = n
    /\ \E i \in Nodes, j \in Nodes : dist[i, j] = 1

\* C10: with districts that partition the nodes and rows that carry GEOID10
\* values of nodes, the loop ends without an error and gives every row a
\* label in [0, k), the index of the district that holds the node with the
\* row's GEOID10; no entry keeps -1.
DrawArgumentsOk ==
    /\ \A i \in Nodes :
          Cardinality({ c \in 1..Len(districts) : i \in Members(districts[c]) }) = 1
    /\ \A r \in 1..n : \E i \in Nodes : GEOID10[i] = df[r]

C10_Labels ==
    DrawArgumentsOk =>
        /\ pc # "KeyError"
        /\ pc = "drawn" =>
              \A r \in 1..n :
                  /\ assignment[r] # -1
                  /\ assignment[r] \in 0..(Len(districts) - 1)
                  /\ \E i \in Members(districts[assignment[r] + 1]) :
                        GEOID10[i] = df[r]

C10_Witness ==
    /\ DrawArgumentsOk
    /\ pc = "drawn"
    /\ n = 3
    /\ Len(districts) = 2
    /\ df[1] = GEOID10[3]
    /\ GEOID10[1] = <<"GEOID10", 2>>
    /\ assignment = <<1, 0, 1>>

====
